---------------------------- MODULE Spec2Model ----------------------------
(***************************************************************************)
(* Model of src/formulas.py: the RIPTE wage-index utilities (cargar_ripte, *)
(* seleccionar_periodos, coeficiente_ripte), the actuarial formulas and    *)
(* the script body that resolves the salary, the base age, the selected    *)
(* formulas and the age sweep.                                             *)
(*                                                                         *)
(* Numbers.  Python floats are modelled as rationals <<num, den>> with     *)
(* den > 0; a zero denominator is the value of a division that raises.     *)
(* A monetary amount is kept as the sequence of the factors the formula    *)
(* multiplies (their product exceeds the 32-bit integers of TLC); its      *)
(* sign and its being zero are those of the factors.  (1+i)^n of the       *)
(* annuity coefficient is computed in fixed point, in units of 1/Escala.   *)
(***************************************************************************)
EXTENDS Integers, Sequences, FiniteSets, TLC

VARIABLES
    csv,                    \* data/ripte.csv as read by pd.read_csv
    hoy,                    \* date.today()
    edad_evento, fecha_hecho, puntos_fisicos, puntos_psico, dano_moral_pct,
    valor_punto, tasa_interes, salario_ingresado, tipo_salario, fecha_calculo,
    usar_nd, formulas_sel, criterio, min_age, max_age,      \* widget values
    ripte_df, coef_aplicado, periodo_inicial_usado, periodo_final_usado,
    salario_mensual, salario_anual, edad_base, anos_transcurridos,
    resultados, info_detalle, edades, resultados_por_formula, rojo_idx,
    pc                      \* position of the script run

entradas == <<csv, hoy, edad_evento, fecha_hecho, puntos_fisicos, puntos_psico,
              dano_moral_pct, valor_punto, tasa_interes, salario_ingresado,
              tipo_salario, fecha_calculo, usar_nd, formulas_sel, criterio,
              min_age, max_age>>

calculadas == <<ripte_df, coef_aplicado, periodo_inicial_usado,
                periodo_final_usado, salario_mensual, salario_anual, edad_base,
                anos_transcurridos, resultados, info_detalle, edades,
                resultados_por_formula, rojo_idx>>

vars == <<entradas, calculadas, pc>>

---------------------------------------------------------------------------
(* Bounds of the model                                                     *)

MaxFilas == 2          \* rows of the CSV source
MaxAnos == 1           \* calendar years after AnoBase
MaxTramo == 2          \* max_age - min_age of the age sweep
Escala == 1000         \* fixed-point unit of (1+i)^n
AnoBase == 2020        \* first calendar year of the dates drawn

---------------------------------------------------------------------------
(* Program constants                                                       *)

SMVM == 322000
NaT == -1              \* pd.NaT: the period of an empty 'fecha' cell
None == -2             \* the period returned for an empty table

---------------------------------------------------------------------------
(* Rationals                                                               *)

R(n) == <<n, 1>>
RMul(a, b) == <<a[1] * b[1], a[2] * b[2]>>
RAdd(a, b) == <<a[1] * b[2] + b[1] * a[2], a[2] * b[2]>>
RIgual(a, b) == a[1] * b[2] = b[1] * a[2]
SignoDe(n) == IF n > 0 THEN 1 ELSE IF n < 0 THEN -1 ELSE 0

(* Sign of the product of the factors of an amount.                        *)
Signo(prod) ==
    LET F[k \in 0..Len(prod)] ==
            IF k = 0 THEN 1 ELSE F[k - 1] * SignoDe(prod[k][1])
    IN  F[Len(prod)]

(* A factor with denominator 0: the division raised ZeroDivisionError.     *)
Lanza(prod) == \E k \in 1..Len(prod) : prod[k][2] = 0

Max(a, b) == IF a >= b THEN a ELSE b
Min(a, b) == IF a <= b THEN a ELSE b

(* The elements of s at the positions I, in order.                         *)
SubSecuencia(s, I) ==
    LET F[k \in 0..Len(s)] ==
            IF k = 0 THEN <<>>
            ELSE IF k \in I THEN Append(F[k - 1], s[k]) ELSE F[k - 1]
    IN  F[Len(s)]

---------------------------------------------------------------------------
(* Dates and monthly periods                                               *)

Anos == AnoBase..(AnoBase + MaxAnos)
MesDia == {<<3, 10>>, <<3, 20>>, <<9, 10>>}
Fechas == {[year |-> y, month |-> md[1], day |-> md[2]] : y \in Anos, md \in MesDia}

(* pd.Period(f"{year}-{month:02d}"): the month ordinal of the date.        *)
Periodo(year, month) == (year - AnoBase) * 12 + (month - 1)

(* The months a source may carry: March and September of two years.       *)
PeriodosTabla == {Periodo(AnoBase + a, m) : a \in {0, 1}, m \in {3, 9}}

(* date <= date                                                            *)
FechaMenorIgual(a, b) ==
    \/ a.year < b.year
    \/ a.year = b.year /\ a.month < b.month
    \/ a.year = b.year /\ a.month = b.month /\ a.day <= b.day

UltimaFecha == CHOOSE f \in Fechas : \A g \in Fechas : FechaMenorIgual(g, f)

---------------------------------------------------------------------------
(* cargar_ripte                                                            *)

(* df['fecha'] = pd.to_datetime(df['fecha']).dt.to_period('M')             *)
(* A cell is <<"periodo", p>>, <<"vacia", 0>> (NaT) or <<"texto", 0>>,     *)
(* which pd.to_datetime refuses with an exception.                         *)
to_period(celda) == IF celda[1] = "periodo" THEN celda[2] ELSE NaT

(* pd.to_numeric(df['indice'], errors='coerce'): <<"num", v>> parses to v, *)
(* <<"texto", 0>> is coerced to NaN.                                       *)
to_numeric(celda) ==
    IF celda[1] = "num" THEN [nan |-> FALSE, v |-> celda[2]]
    ELSE [nan |-> TRUE, v |-> 0]

(* df.dropna(): the rows with neither NaT nor NaN.                         *)
dropna(filas) ==
    SubSecuencia(filas, {k \in 1..Len(filas) :
                           filas[k].fecha # NaT /\ ~filas[k].indice.nan})

(* sort_values('fecha') with the default kind='quicksort', which is not    *)
(* stable: every ordering of the rows by period, rows of one period in any *)
(* order.                                                                  *)
sort_values(filas) ==
    LET n == Len(filas)
        perms == {p \in [1..n -> 1..n] : \A a, b \in 1..n : a # b => p[a] # p[b]}
    IN  {[k \in 1..n |-> filas[p[k]]] :
            p \in {q \in perms :
                     \A a, b \in 1..n :
                        a < b => filas[q[a]].fecha <= filas[q[b]].fecha}}

(* drop_duplicates(subset=['fecha'], keep='last')                          *)
drop_duplicates(filas) ==
    SubSecuencia(filas, {k \in 1..Len(filas) :
                           \A j \in (k + 1)..Len(filas) :
                              filas[j].fecha # filas[k].fecha})

(* The possible outcomes of cargar_ripte: the table, or the exception of   *)
(* pd.to_datetime.                                                         *)
cargar_ripte(c) ==
    IF c.estado # "ok" THEN {[excepcion |-> "", df |-> <<>>]}
    ELSE IF \E k \in 1..Len(c.filas) : c.filas[k].fecha[1] = "texto"
    THEN {[excepcion |-> "ValueError", df |-> <<>>]}
    ELSE LET leidas == [k \in 1..Len(c.filas) |->
                          [fecha |-> to_period(c.filas[k].fecha),
                           indice |-> to_numeric(c.filas[k].indice)]]
         IN  {[excepcion |-> "",
               df |-> [k \in 1..Len(d) |->
                          [fecha |-> d[k].fecha, indice |-> d[k].indice.v]]] :
                 d \in {drop_duplicates(s) : s \in sort_values(dropna(leidas))}}

---------------------------------------------------------------------------
(* seleccionar_periodos, coeficiente_ripte                                 *)

PeriodosDe(df) == {df[k].fecha : k \in 1..Len(df)}
MaxPeriodo(S) == CHOOSE p \in S : \A q \in S : q <= p
MinPeriodo(S) == CHOOSE p \in S : \A q \in S : p <= q

(* Lines 59-64: p itself if the table has it, else the latest period of   *)
(* the table at or before p, else `respaldo`.                              *)
Anterior(fechas, p, respaldo) ==
    LET ant == {q \in fechas : q <= p}
    IN  IF p \notin fechas
        THEN (IF ant # {} THEN MaxPeriodo(ant) ELSE respaldo)
        ELSE p

(* seleccionar_periodos without the adjustment to the periods the table    *)
(* has.                                                                    *)
seleccionar_periodos_sin_ajuste(df, fecha_inicial, fecha_final) ==
    IF Len(df) = 0 THEN <<None, None>>
    ELSE
    LET pi0 == Periodo(fecha_inicial.year, fecha_inicial.month)
        pf0 == Periodo(fecha_final.year, fecha_final.month)
        pi1 == IF pf0 < pi0 THEN pf0 ELSE pi0
        pf1 == IF pf0 < pi0 THEN pi0 ELSE pf0
    IN  <<pi1, Min(pf1, MaxPeriodo(PeriodosDe(df)))>>

(* seleccionar_periodos without the swap of dates given in reverse order.  *)
seleccionar_periodos_sin_orden(df, fecha_inicial, fecha_final) ==
    IF Len(df) = 0 THEN <<None, None>>
    ELSE
    LET pi0 == Periodo(fecha_inicial.year, fecha_inicial.month)
        pf0 == Periodo(fecha_final.year, fecha_final.month)
        fechas == PeriodosDe(df)
    IN  <<Anterior(fechas, pi0, MinPeriodo(fechas)),
          Min(Anterior(fechas, pf0, MaxPeriodo(fechas)), MaxPeriodo(fechas))>>

seleccionar_periodos(df, fecha_inicial, fecha_final) ==
    IF Len(df) = 0 THEN <<None, None>>
    ELSE
    LET pi0 == Periodo(fecha_inicial.year, fecha_inicial.month)
        pf0 == Periodo(fecha_final.year, fecha_final.month)
        \* if pf < pi: pi, pf = pf, pi
        pi1 == IF pf0 < pi0 THEN pf0 ELSE pi0
        pf1 == IF pf0 < pi0 THEN pi0 ELSE pf0
        fechas == PeriodosDe(df)
    IN  <<Anterior(fechas, pi1, MinPeriodo(fechas)),
          Min(Anterior(fechas, pf1, MaxPeriodo(fechas)), MaxPeriodo(fechas))>>

(* cummax that leaves the column as it is.                                 *)
cummax_sin_acumular(df) == [k \in 1..Len(df) |-> df[k].indice]

(* serie['indice'].cummax()                                                *)
cummax(df) ==
    LET F[k \in 1..Len(df)] ==
            IF k = 1 THEN df[1].indice ELSE Max(F[k - 1], df[k].indice)
    IN  [k \in 1..Len(df) |-> F[k]]

(* The value .iloc[0] raises IndexError on an empty selection.             *)
IndexError == <<0, 0>>

(* serie.loc[serie['fecha'] == p, columna].iloc[0]                         *)
iloc0(df, columna, p) ==
    LET filas == {k \in 1..Len(df) : df[k].fecha = p}
    IN  IF filas = {} THEN IndexError
        ELSE R(columna[CHOOSE k \in filas : \A j \in filas : k <= j])

coeficiente_ripte(df, pi, pf, nd) ==
    IF Len(df) = 0 \/ pi = None \/ pf = None THEN R(1)
    ELSE
    LET columna == IF nd THEN cummax(df) ELSE [k \in 1..Len(df) |-> df[k].indice]
        vi == iloc0(df, columna, pi)
        vf == iloc0(df, columna, pf)
    IN  IF vi = IndexError \/ vf = IndexError THEN IndexError
        ELSE IF vi[1] > 0 THEN <<vf[1], vi[1]>> ELSE R(1)

---------------------------------------------------------------------------
(* Actuarial formulas                                                      *)

(* (1 + i) ** n in fixed point, i = <<p, q>>, by squaring                  *)
Potencia(i, n) ==
    LET F[k \in 0..n] ==
            IF k = 0 THEN Escala
            ELSE LET mitad == F[k \div 2]
                     cuadrado == (mitad * mitad) \div Escala
                 IN  IF k % 2 = 1 THEN (cuadrado * (i[2] + i[1])) \div i[2]
                     ELSE cuadrado
    IN  F[n]

coeficiente_actuarial(i, n) ==
    IF n <= 0 THEN R(0)
    ELSE <<((Escala - (Escala * Escala) \div Potencia(i, n)) * i[2]) \div i[1],
           Escala>>

formula_vuotto(salario, i, n, incapacidad) ==
    <<salario, coeficiente_actuarial(i, n), incapacidad>>

formula_mendez(salario, i, n, incapacidad, edad) ==
    <<salario, <<60, edad>>, coeficiente_actuarial(i, n), incapacidad>>

formula_acciarri(salario, i, n, incapacidad, edad) ==
    <<salario, <<60, edad>>, coeficiente_actuarial(i, n), incapacidad, <<11, 10>>>>

formula_marshall(salario, i, n, incapacidad) ==
    <<salario, coeficiente_actuarial(i, n), incapacidad>>

(* (1 + tasa) ** anos, exact                                               *)
PotenciaExacta(t, n) ==
    LET F[k \in 0..n] ==
            IF k = 0 THEN R(1) ELSE RMul(F[k - 1], <<t[2] + t[1], t[2]>>)
    IN  F[n]

formula_local(vp, pfis, ppsi, dmoral, tasa, anos) ==
    LET base == RAdd(RAdd(R(vp * pfis), <<vp * ppsi, 2>>),
                     RMul(R(vp * pfis), dmoral))
    IN  <<base, PotenciaExacta(tasa, anos)>>

interes_default(f) ==
    CASE f = "Vuotto" -> <<6, 100>>
      [] f = "Mendez" -> <<4, 100>>
      [] f = "Acciarri" -> <<4, 100>>
      [] f = "Marshall" -> <<6, 100>>

Clasicas == <<"Vuotto", "Mendez", "Acciarri", "Marshall">>

(* The horizon of the selection loop without the floor at 0.               *)
AnosRestantesSinTope(f, edad) ==
    CASE f = "Vuotto" -> 65 - edad
      [] f = "Mendez" -> 75 - edad
      [] f = "Acciarri" -> 75 - edad
      [] f = "Marshall" -> 80 - edad

(* n = max(65 - edad_base, 0) ... of the selection loop                    *)
AnosRestantes(f, edad) ==
    CASE f = "Vuotto" -> Max(65 - edad, 0)
      [] f = "Mendez" -> Max(75 - edad, 0)
      [] f = "Acciarri" -> Max(75 - edad, 0)
      [] f = "Marshall" -> Max(80 - edad, 0)

(* n = max(65 - edad, 0) ... of the age sweep                              *)
AnosRestantesBarrido(f, edad) ==
    CASE f = "Vuotto" -> Max(65 - edad, 0)
      [] f = "Mendez" -> Max(75 - edad, 0)
      [] f = "Acciarri" -> Max(75 - edad, 0)
      [] f = "Marshall" -> Max(80 - edad, 0)

(* The call of the classic formula f with horizon n and age edad.          *)
formula_clasica(f, salario, n, incapacidad, edad) ==
    CASE f = "Vuotto" -> formula_vuotto(salario, interes_default(f), n, incapacidad)
      [] f = "Mendez" -> formula_mendez(salario, interes_default(f), n, incapacidad, edad)
      [] f = "Acciarri" -> formula_acciarri(salario, interes_default(f), n, incapacidad, edad)
      [] f = "Marshall" -> formula_marshall(salario, interes_default(f), n, incapacidad)

---------------------------------------------------------------------------
(* The script                                                              *)

(* Lines 145-161: the RIPTE update of a historical salary, the minimum     *)
(* wage substitution and the annual salary.                                *)
(* The substitution with `< 0` for `<= 0`.                                 *)
SalarioResueltoEstricto(salario) == IF salario[1] < 0 THEN R(SMVM) ELSE salario

SalarioResuelto(salario) == IF salario[1] <= 0 THEN R(SMVM) ELSE salario

SalarioAnual(salario) == RMul(SalarioResuelto(salario), R(13))

ActualizacionRipte ==
    /\ pc = "inicio"
    /\ \E r \in (IF tipo_salario = "Valor historico"
                 THEN cargar_ripte(csv)
                 ELSE {[excepcion |-> "", df |-> <<>>]}) :
         LET ajusta == /\ tipo_salario = "Valor historico"
                       /\ salario_mensual[1] > 0
                       /\ Len(r.df) # 0
             per == seleccionar_periodos(r.df, fecha_hecho, fecha_calculo)
             coef == coeficiente_ripte(r.df, per[1], per[2], usar_nd)
             salario == IF ajusta THEN RMul(salario_mensual, coef) ELSE salario_mensual
         IN  IF r.excepcion # ""
             THEN /\ pc' = r.excepcion
                  /\ UNCHANGED calculadas
             ELSE IF ajusta /\ coef = IndexError
             THEN /\ pc' = "IndexError"
                  /\ ripte_df' = r.df
                  /\ UNCHANGED <<coef_aplicado, periodo_inicial_usado,
                                 periodo_final_usado, salario_mensual, salario_anual,
                                 edad_base, anos_transcurridos, resultados,
                                 info_detalle, edades, resultados_por_formula,
                                 rojo_idx>>
             ELSE /\ pc' = "salario"
                  /\ ripte_df' = r.df
                  /\ coef_aplicado' = IF ajusta THEN coef ELSE coef_aplicado
                  /\ periodo_inicial_usado' = IF ajusta THEN per[1] ELSE None
                  /\ periodo_final_usado' = IF ajusta THEN per[2] ELSE None
                  /\ salario_mensual' = SalarioResuelto(salario)
                  /\ salario_anual' = SalarioAnual(salario)
                  /\ UNCHANGED <<edad_base, anos_transcurridos, resultados,
                                 info_detalle, edades, resultados_por_formula,
                                 rojo_idx>>
    /\ UNCHANGED entradas

(* (hoy.year - fecha.year) - ((hoy.month, hoy.day) < (fecha.month, fecha.day)) *)
AnosTranscurridos(h, fecha) ==
    (h.year - fecha.year)
    - (IF \/ h.month < fecha.month
          \/ h.month = fecha.month /\ h.day < fecha.day
       THEN 1 ELSE 0)

EdadBase(edad, anos, crit) ==
    IF crit = "Recalcular con edad actual" THEN Max(edad + anos, 0) ELSE edad

(* The body of `for f in formulas_sel` for one formula: the amount and the *)
(* detail it records.                                                      *)
Calcular(f, salario, incapacidad, edad, anos) ==
    IF f = "Local"
    THEN [valor |-> formula_local(valor_punto, puntos_fisicos, puntos_psico,
                                  dano_moral_pct, tasa_interes, anos),
          detalle |-> [anos |-> anos, tasa |-> PotenciaExacta(tasa_interes, anos)]]
    ELSE LET n == AnosRestantes(f, edad)
         IN  [valor |-> formula_clasica(f, salario, n, incapacidad, edad),
              detalle |-> [edad_base |-> edad, n |-> n]]

(* The loop over formulas_sel: it stops at the first formula that raises.  *)
Bucle(sel, salario, incapacidad, edad, anos) ==
    LET F[k \in 0..Len(sel)] ==
            IF k = 0 THEN [res |-> <<>>, det |-> <<>>, error |-> FALSE]
            ELSE LET antes == F[k - 1]
                     c == Calcular(sel[k], salario, incapacidad, edad, anos)
                 IN  IF antes.error THEN antes
                     ELSE IF Lanza(c.valor) THEN [antes EXCEPT !.error = TRUE]
                     ELSE [res |-> antes.res @@ (sel[k] :> c.valor),
                           det |-> antes.det @@ (sel[k] :> c.detalle),
                           error |-> FALSE]
    IN  F[Len(sel)]

(* Lines 171-206 *)
CalcularFormulas ==
    /\ pc = "salario"
    /\ LET anos == AnosTranscurridos(hoy, fecha_hecho)
           edad == EdadBase(edad_evento, anos, criterio)
           b == Bucle(formulas_sel, salario_anual, <<puntos_fisicos, 100>>, edad, anos)
       IN  /\ anos_transcurridos' = anos
           /\ edad_base' = edad
           /\ resultados' = b.res
           /\ info_detalle' = b.det
           /\ pc' = IF b.error THEN "ZeroDivisionError" ELSE "formulas"
    /\ UNCHANGED <<entradas, ripte_df, coef_aplicado, periodo_inicial_usado,
                   periodo_final_usado, salario_mensual, salario_anual, edades,
                   resultados_por_formula, rojo_idx>>

(* rojo_idx without the clamp to the range.                                *)
RojoIdxSinTope(edad, lista) == edad - lista[1]

(* rojo_idx, 0-based as in the source                                      *)
RojoIdx(edad, lista) ==
    IF edad < lista[1] THEN 0
    ELSE IF edad > lista[Len(lista)] THEN Len(lista) - 1
    ELSE (CHOOSE k \in 1..Len(lista) : lista[k] = edad) - 1

(* list(range(min_age, max_age + 1))                                       *)
Rango(a, b) == [k \in 1..(b + 1 - a) |-> a + k - 1]

Barrido(formula, lista, salario, incapacidad) ==
    [k \in 1..Len(lista) |->
        formula_clasica(formula, salario, AnosRestantesBarrido(formula, lista[k]),
                        incapacidad, lista[k])]

(* Lines 243-286 *)
TendenciaPorEdad ==
    /\ pc = "formulas"
    /\ edades' = Rango(min_age, max_age)
    /\ resultados_por_formula' =
          [f \in {Clasicas[k] : k \in 1..Len(Clasicas)} |->
              Barrido(f, edades', salario_anual, <<puntos_fisicos, 100>>)]
    /\ rojo_idx' = RojoIdx(edad_evento, edades')
    /\ pc' = "fin"
    /\ UNCHANGED <<entradas, ripte_df, coef_aplicado, periodo_inicial_usado,
                   periodo_final_usado, salario_mensual, salario_anual, edad_base,
                   anos_transcurridos, resultados, info_detalle>>

Next == ActualizacionRipte \/ CalcularFormulas \/ TendenciaPorEdad

---------------------------------------------------------------------------
(* Inputs                                                                  *)

ValoresIndice == {-1, 0, 2, 3}

CeldasFecha == {<<"periodo", p>> : p \in PeriodosTabla} \cup {<<"vacia", 0>>, <<"texto", 0>>}
CeldasIndice == {<<"num", v>> : v \in ValoresIndice} \cup {<<"texto", 0>>}
Filas == [fecha : CeldasFecha, indice : CeldasIndice]

SecuenciasHasta(S, n) == UNION {[1..k -> S] : k \in 0..n}

Ausente == [estado |-> "ausente", filas |-> <<>>]
SinColumnas == [estado |-> "sin_columnas", filas |-> <<>>]

(* Every source of at most MaxFilas rows.                                  *)
Fuentes ==
    {Ausente, SinColumnas}
    \cup {[estado |-> "ok", filas |-> s] : s \in SecuenciasHasta(Filas, MaxFilas)}

(* The sources that are already a valid table: parsable cells, periods     *)
(* strictly ascending.                                                     *)
FuentesLimpias ==
    {c \in Fuentes :
        /\ c.estado = "ok"
        /\ \A k \in 1..Len(c.filas) :
              c.filas[k].fecha[1] = "periodo" /\ c.filas[k].indice[1] = "num"
        /\ \A k \in 1..(Len(c.filas) - 1) :
              c.filas[k].fecha[2] < c.filas[k + 1].fecha[2]}

(* The state of the script before its first computed assignment.           *)
Arranque ==
    /\ ripte_df = <<>>
    /\ coef_aplicado = R(1)
    /\ periodo_inicial_usado = None
    /\ periodo_final_usado = None
    /\ salario_mensual = R(salario_ingresado)
    /\ salario_anual = R(0)
    /\ edad_base = edad_evento
    /\ anos_transcurridos = 0
    /\ resultados = <<>>
    /\ info_detalle = <<>>
    /\ edades = <<>>
    /\ resultados_por_formula = <<>>
    /\ rojo_idx = 0

TodasLasFormulas == <<"Vuotto", "Mendez", "Acciarri", "Marshall", "Local">>

(* The widgets at fixed values, for the inputs a family does not vary.     *)
Defecto ==
    /\ puntos_psico = 5
    /\ dano_moral_pct = <<50, 100>>
    /\ valor_punto = 50000
    /\ tasa_interes = <<6, 100>>

(* The source whose rows carry `valores` at the first months of            *)
(* PeriodosTabla, in ascending order.                                      *)
TablaDe(valores) ==
    [estado |-> "ok",
     filas |-> [k \in 1..Len(valores) |->
                  [fecha |-> <<"periodo",
                               CHOOSE p \in PeriodosTabla :
                                  Cardinality({q \in PeriodosTabla : q < p}) = k - 1>>,
                   indice |-> <<"num", valores[k]>>]]]

(* Loading: every source, a historical salary.                             *)
InitCarga ==
    /\ csv \in Fuentes
    /\ Defecto
    /\ hoy = UltimaFecha
    /\ edad_evento = 30
    /\ fecha_hecho = UltimaFecha
    /\ fecha_calculo = UltimaFecha
    /\ puntos_fisicos = 10
    /\ salario_ingresado = 100000
    /\ tipo_salario = "Valor historico"
    /\ usar_nd = TRUE
    /\ formulas_sel = TodasLasFormulas
    /\ criterio = "Usar edad al hecho"
    /\ min_age = 1
    /\ max_age = 1 + MaxTramo
    /\ Arranque
    /\ pc = "inicio"
    /\ pc = "inicio"

SpecCarga == InitCarga /\ [][Next]_vars

(* The RIPTE update: every valid table, every pair of dates.               *)
InitRipte ==
    /\ csv \in FuentesLimpias \cup {Ausente}
    /\ Defecto
    /\ hoy = UltimaFecha
    /\ edad_evento = 30
    /\ fecha_hecho \in Fechas
    /\ fecha_calculo \in Fechas
    /\ puntos_fisicos = 10
    /\ salario_ingresado = 100000
    /\ tipo_salario = "Valor historico"
    /\ usar_nd \in BOOLEAN
    /\ formulas_sel = TodasLasFormulas
    /\ criterio = "Usar edad al hecho"
    /\ min_age = 1
    /\ max_age = 1 + MaxTramo
    /\ Arranque
    /\ pc = "inicio"

(* A direct call of coeficiente_ripte(df, pi, pf, usar_nd) on a loaded     *)
(* table, with any periods.                                                *)
InitPrueba ==
    /\ csv \in FuentesLimpias \cup {Ausente}
    /\ Defecto
    /\ hoy = UltimaFecha
    /\ edad_evento = 30
    /\ fecha_hecho = UltimaFecha
    /\ fecha_calculo = UltimaFecha
    /\ puntos_fisicos = 10
    /\ salario_ingresado = 100000
    /\ tipo_salario = "Valor historico"
    /\ usar_nd \in BOOLEAN
    /\ formulas_sel = TodasLasFormulas
    /\ criterio = "Usar edad al hecho"
    /\ min_age = 1
    /\ max_age = 1 + MaxTramo
    /\ Arranque
    /\ pc = "prueba"

PruebaCoeficiente ==
    /\ pc = "prueba"
    /\ \E r \in cargar_ripte(csv), pi \in PeriodosTabla \cup {None},
          pf \in PeriodosTabla \cup {None} :
         /\ ripte_df' = r.df
         /\ periodo_inicial_usado' = pi
         /\ periodo_final_usado' = pf
         /\ coef_aplicado' = coeficiente_ripte(r.df, pi, pf, usar_nd)
    /\ pc' = "probado"
    /\ UNCHANGED <<entradas, salario_mensual, salario_anual, edad_base,
                   anos_transcurridos, resultados, info_detalle, edades,
                   resultados_por_formula, rojo_idx>>

NextRipte == Next \/ PruebaCoeficiente

InitRipteOPrueba == InitRipte \/ InitPrueba

SpecRipte == InitRipteOPrueba /\ [][NextRipte]_vars

(* Salary resolution: salary, wage type, flag, dates and a few tables.     *)
InitSalario ==
    /\ csv \in {Ausente, SinColumnas}
               \cup {TablaDe(<<a, b>>) : a \in ValoresIndice, b \in ValoresIndice}
    /\ Defecto
    /\ hoy = UltimaFecha
    /\ edad_evento = 30
    /\ fecha_hecho \in Fechas
    /\ fecha_calculo \in Fechas
    /\ puntos_fisicos = 10
    /\ salario_ingresado \in {0, 100000}
    /\ tipo_salario \in {"Valor actual", "Valor historico"}
    /\ usar_nd \in BOOLEAN
    /\ formulas_sel = TodasLasFormulas
    /\ criterio = "Usar edad al hecho"
    /\ min_age = 1
    /\ max_age = 1 + MaxTramo
    /\ Arranque
    /\ pc = "inicio"

SpecSalario == InitSalario /\ [][Next]_vars

Edades == {0, 1, 30, 65, 80, 120}
Selecciones == {<<>>, TodasLasFormulas, <<"Mendez", "Vuotto">>, <<"Local", "Acciarri">>}
Criterios == {"Usar edad al hecho", "Recalcular con edad actual"}

(* The formulas: ages, dates, criterion, selection, incapacity, and a      *)
(* salary that is entered, adjusted or substituted.                        *)
Init ==
    /\ csv \in {Ausente, TablaDe(<<2, -1>>)}
    /\ Defecto
    /\ hoy \in Fechas
    /\ edad_evento \in Edades
    /\ fecha_hecho \in {f \in Fechas : FechaMenorIgual(f, hoy)}
    /\ fecha_calculo \in {f \in Fechas : FechaMenorIgual(f, hoy)}
    /\ puntos_fisicos \in {0, 10}
    /\ salario_ingresado = 100000
    /\ tipo_salario \in {"Valor actual", "Valor historico"}
    /\ usar_nd = TRUE
    /\ formulas_sel \in Selecciones
    /\ criterio \in Criterios
    /\ min_age = 1
    /\ max_age = 1 + MaxTramo
    /\ Arranque
    /\ pc = "inicio"

Spec == Init /\ [][Next]_vars

InicioTramo == {1, 63, 73, 78, 100 - MaxTramo}
EdadesBarrido == {0, 1, 64, 65, 75, 80, 120}

(* The age sweep: ranges around the ages where a horizon ends, and ages    *)
(* below, inside and above them.                                           *)
InitBarrido ==
    /\ csv = Ausente
    /\ Defecto
    /\ hoy = UltimaFecha
    /\ edad_evento \in EdadesBarrido
    /\ fecha_hecho = UltimaFecha
    /\ fecha_calculo = UltimaFecha
    /\ puntos_fisicos \in {0, 10}
    /\ salario_ingresado \in {0, 100000}
    /\ tipo_salario = "Valor actual"
    /\ usar_nd = TRUE
    /\ formulas_sel \in {TodasLasFormulas, <<"Vuotto">>}
    /\ criterio = "Usar edad al hecho"
    /\ min_age \in InicioTramo
    /\ max_age \in min_age..Min(100, min_age + MaxTramo)
    /\ Arranque
    /\ pc = "inicio"

SpecBarrido == InitBarrido /\ [][Next]_vars

---------------------------------------------------------------------------
(* Properties                                                              *)

(* The script is past the RIPTE update and the salary resolution.          *)
SalarioListo == pc \in {"salario", "formulas", "fin", "ZeroDivisionError"}

(* The script is past the loop over the selected formulas.                 *)
BucleHecho == pc \in {"formulas", "fin", "ZeroDivisionError"}

(* The historical salary was adjusted by the RIPTE coefficient.            *)
Ajustado ==
    /\ SalarioListo
    /\ tipo_salario = "Valor historico"
    /\ salario_ingresado > 0
    /\ Len(ripte_df) > 0

(* Whole years from `desde` to `hasta`: the difference of the years, minus *)
(* one when the (month, day) of `hasta` precedes that of `desde`.          *)
AnosEnteros(desde, hasta) ==
    IF \/ hasta.month < desde.month
       \/ hasta.month = desde.month /\ hasta.day < desde.day
    THEN hasta.year - desde.year - 1
    ELSE hasta.year - desde.year

(* C1: whenever incident date <= evaluation date <= today, the elapsed     *)
(* years the script resolves are the whole years between the incident date *)
(* and the evaluation date (fecha_calculo), and are never negative.        *)
C1_AnosHastaFechaDeCalculo ==
    (/\ BucleHecho
     /\ FechaMenorIgual(fecha_hecho, fecha_calculo)
     /\ FechaMenorIgual(fecha_calculo, hoy))
    => /\ anos_transcurridos = AnosEnteros(fecha_hecho, fecha_calculo)
       /\ anos_transcurridos >= 0

EnSeleccion(f) == \E k \in 1..Len(formulas_sel) : formulas_sel[k] = f

(* C2: when the base age is 0 and Mendez or Acciarri is selected, no       *)
(* division-by-zero exception ends the run, and every other selected       *)
(* formula still gets its amount.                                          *)
C2_EdadCeroNoAborta ==
    (/\ BucleHecho
     /\ edad_base = 0
     /\ EnSeleccion("Mendez") \/ EnSeleccion("Acciarri"))
    => /\ pc # "ZeroDivisionError"
       /\ \A k \in 1..Len(formulas_sel) :
             formulas_sel[k] \notin {"Mendez", "Acciarri"}
             => formulas_sel[k] \in DOMAIN resultados

(* `res` is the period of the table T that `objetivo` resolves to: itself  *)
(* if present, else the greatest period of T at or below it, else          *)
(* `respaldo`.                                                             *)
Resuelve(T, objetivo, res, respaldo) ==
    IF objetivo \in T THEN res = objetivo
    ELSE IF \E q \in T : q <= objetivo
    THEN /\ res \in T
         /\ res <= objetivo
         /\ \A q \in T : q <= objetivo => q <= res
    ELSE res = respaldo

(* C3: for a non-empty table and any pair of dates, the periods used are   *)
(* those of the two dates truncated to the month, put in order, each       *)
(* resolved to itself, to the greatest table period at or below it, or to  *)
(* the table minimum (start) or maximum (end); both are periods of the     *)
(* table, the end does not exceed the table maximum and start <= end.      *)
C3_PeriodosResueltos ==
    Ajustado =>
    LET T == PeriodosDe(ripte_df)
        a == Periodo(fecha_hecho.year, fecha_hecho.month)
        b == Periodo(fecha_calculo.year, fecha_calculo.month)
    IN  /\ Resuelve(T, Min(a, b), periodo_inicial_usado, MinPeriodo(T))
        /\ Resuelve(T, Max(a, b), periodo_final_usado, MaxPeriodo(T))
        /\ periodo_inicial_usado \in T
        /\ periodo_final_usado \in T
        /\ periodo_final_usado <= MaxPeriodo(T)
        /\ periodo_inicial_usado <= periodo_final_usado

(* C3 witness: the dates arrive in reverse order and the incident month is *)
(* missing from a table of two or more periods.                            *)
C3_Testigo ==
    /\ Ajustado
    /\ Len(ripte_df) >= 2
    /\ Periodo(fecha_calculo.year, fecha_calculo.month)
          < Periodo(fecha_hecho.year, fecha_hecho.month)
    /\ Periodo(fecha_hecho.year, fecha_hecho.month) \notin PeriodosDe(ripte_df)
    /\ periodo_inicial_usado < periodo_final_usado

(* indexValue(period, nonDecreasing): the index of the period, or the      *)
(* greatest index of the periods up to it.                                 *)
ValorIndice(df, p, nd) ==
    LET hasta == {df[k].indice : k \in {j \in 1..Len(df) :
                                          IF nd THEN df[j].fecha <= p
                                                ELSE df[j].fecha = p}}
    IN  CHOOSE v \in hasta : \A w \in hasta : w <= v

(* The coefficient of the table for two of its periods.                    *)
CoeficienteEsperado(df, pi, pf, nd) ==
    IF ValorIndice(df, pi, nd) > 0
    THEN <<ValorIndice(df, pf, nd), ValorIndice(df, pi, nd)>>
    ELSE <<1, 1>>

C5_UltimaFilaGana ==
    (SalarioListo /\ csv.estado = "ok")
    => /\ \A k \in 1..(Len(ripte_df) - 1) : ripte_df[k].fecha < ripte_df[k + 1].fecha
       /\ \A p \in PeriodosTabla :
             LET filas == {k \in 1..Len(csv.filas) :
                             /\ csv.filas[k].fecha = <<"periodo", p>>
                             /\ csv.filas[k].indice[1] = "num"}
                 ultima == CHOOSE k \in filas : \A j \in filas : j <= k
             IN  Cardinality(filas) > 1
                 => \E j \in 1..Len(ripte_df) :
                       /\ ripte_df[j].fecha = p
                       /\ ripte_df[j].indice = csv.filas[ultima].indice[2]

(* C6: every index value of the loaded table is strictly positive.         *)
C6_IndicesPositivos ==
    \A k \in 1..Len(ripte_df) : ripte_df[k].indice > 0

(* C7: the annual salary is 13 x M, M being the monthly salary (times the  *)
(* coefficient if it was adjusted) when that is > 0 and 322000 otherwise;  *)
(* the minimum wage is substituted after the adjustment and not multiplied *)
(* by the coefficient; the annual salary is strictly positive.             *)
C7_SalarioAnual ==
    SalarioListo =>
    LET m == IF Ajustado
             THEN <<salario_ingresado * coef_aplicado[1], coef_aplicado[2]>>
             ELSE <<salario_ingresado, 1>>
        M == IF m[1] > 0 THEN m ELSE <<322000, 1>>
    IN  /\ coef_aplicado[2] > 0
        /\ salario_anual[2] > 0
        /\ salario_anual[1] * M[2] = 13 * M[1] * salario_anual[2]
        /\ salario_anual[1] > 0
        /\ RIgual(salario_mensual, M)

(* C7 witness: a historical salary whose coefficient is negative, replaced *)
(* by the minimum wage.                                                    *)
C7_Testigo ==
    /\ Ajustado
    /\ coef_aplicado[1] < 0
    /\ salario_anual = <<4186000, 1>>

Limite(f) ==
    CASE f = "Vuotto" -> 65
      [] f = "Mendez" -> 75
      [] f = "Acciarri" -> 75
      [] f = "Marshall" -> 80

(* C8: every amount recorded is >= 0; a classic formula was given the      *)
(* horizon max(limit - base age, 0) and its amount is 0 when the base age  *)
(* has reached the limit.                                                  *)
C8_MontosNoNegativos ==
    BucleHecho =>
    \A f \in DOMAIN resultados :
        /\ Signo(resultados[f]) >= 0
        /\ f # "Local"
           => /\ info_detalle[f].edad_base = edad_base
              /\ info_detalle[f].n >= 0
              /\ info_detalle[f].n =
                    (IF Limite(f) - edad_base > 0 THEN Limite(f) - edad_base ELSE 0)
              /\ edad_base >= Limite(f) => Signo(resultados[f]) = 0

(* C8 witness: the base age is past Vuotto's limit and not Marshall's.     *)
C8_Testigo ==
    /\ pc = "fin"
    /\ edad_base >= 65
    /\ criterio = "Recalcular con edad actual"
    /\ "Vuotto" \in DOMAIN resultados
    /\ "Marshall" \in DOMAIN resultados
    /\ "Local" \in DOMAIN resultados
    /\ Signo(resultados["Vuotto"]) = 0
    /\ Signo(resultados["Marshall"]) = 1

(* C9: the sweep gives each of the four classic formulas, and not Local,   *)
(* one value per age of min_age..max_age in ascending order, computed with *)
(* the formula's horizon at that age; the highlighted index is a valid     *)
(* index and points at the entered age clamped to the range.               *)
C9_Barrido ==
    pc = "fin" =>
    /\ DOMAIN resultados_por_formula = {"Vuotto", "Mendez", "Acciarri", "Marshall"}
    /\ Len(edades) = max_age - min_age + 1
    /\ \A k \in 1..Len(edades) : edades[k] = min_age + k - 1
    /\ \A f \in DOMAIN resultados_por_formula :
          /\ Len(resultados_por_formula[f]) = Len(edades)
          /\ \A k \in 1..Len(edades) :
                LET edad == min_age + k - 1
                    n == IF Limite(f) - edad > 0 THEN Limite(f) - edad ELSE 0
                IN  resultados_por_formula[f][k] =
                       formula_clasica(f, salario_anual, n,
                                       <<puntos_fisicos, 100>>, edad)
    /\ rojo_idx \in 0..(Len(edades) - 1)
    /\ edades[rojo_idx + 1] =
          (IF edad_evento < min_age THEN min_age
           ELSE IF edad_evento > max_age THEN max_age
           ELSE edad_evento)

(* C9 witness: a sweep of several ages with the entered age above it.      *)
C9_Testigo ==
    /\ pc = "fin"
    /\ min_age < max_age
    /\ edad_evento > max_age
    /\ rojo_idx = max_age - min_age
    /\ Signo(resultados_por_formula["Vuotto"][1]) = 1
    /\ Signo(resultados_por_formula["Vuotto"][Len(edades)]) = 0

(* C10: with the non-decreasing flag on and a table of positive indices,   *)
(* the running maximum never decreases along the table, the start period   *)
(* does not follow the end period, the coefficient applied is >= 1 and the *)
(* adjusted salary is not below the salary entered.                        *)
C10_CoeficienteAlMenosUno ==
    (/\ Ajustado
     /\ usar_nd
     /\ \A k \in 1..Len(ripte_df) : ripte_df[k].indice > 0)
    => /\ \A k \in 1..(Len(ripte_df) - 1) :
             cummax(ripte_df)[k] <= cummax(ripte_df)[k + 1]
       /\ periodo_inicial_usado <= periodo_final_usado
       /\ coef_aplicado[2] > 0
       /\ coef_aplicado[1] >= coef_aplicado[2]
       /\ salario_mensual[1] >= salario_ingresado * salario_mensual[2]

(* C10 witness: the index falls between the start and the end period, and  *)
(* the coefficient applied is 1.                                           *)
C10_Testigo ==
    /\ Ajustado
    /\ usar_nd
    /\ Len(ripte_df) >= 2
    /\ \A k \in 1..Len(ripte_df) : ripte_df[k].indice > 0
    /\ periodo_inicial_usado < periodo_final_usado
    /\ ValorIndice(ripte_df, periodo_final_usado, FALSE)
          < ValorIndice(ripte_df, periodo_inicial_usado, FALSE)
    /\ coef_aplicado[1] = coef_aplicado[2]

===========================================================================
